---- MODULE Spec2Model ----
(***************************************************************************)
(* A model of ContactScraper (src/ContactScraper.py): the extractor, the    *)
(* link discoverer, the fetcher and the priority orchestrator               *)
(* scrape_website_prioritized.                                              *)
(*                                                                          *)
(* Python strings are sequences of one-character strings, so that regular   *)
(* expression matching, lower(), strip(), substring tests and URL           *)
(* resolution are computed character by character.                          *)
(***************************************************************************)
EXTENDS Integers, Sequences, FiniteSets, TLC

\* ------------------------------------------------------------------------
\* Bounds of the model
\* ------------------------------------------------------------------------

\* The largest number of phone patterns the configuration may hold
\* (the four defaults plus patterns added with add_phone_pattern).
MaxPhonePatterns == 5

\* The largest number of contact terms the configuration may hold.
MaxContactTerms == 5

\* ------------------------------------------------------------------------
\* Characters and strings
\* ------------------------------------------------------------------------

LowerLetters == <<"a","b","c","d","e","f","g","h","i","j","k","l","m","n","o","p","q","r","s","t","u","v","w","x","y","z">>

UpperLetters == <<"A","B","C","D","E","F","G","H","I","J","K","L","M","N","O","P","Q","R","S","T","U","V","W","X","Y","Z">>

Range(f) == {f[k] : k \in DOMAIN f}

Letter == Range(LowerLetters) \cup Range(UpperLetters)

Digit == {"0","1","2","3","4","5","6","7","8","9"}

\* \s of Python's re on str
Whitespace == {" ", "\t", "\n", "\r", "\f"}

Max(S) == CHOOSE x \in S : \A y \in S : y <= x

Min(S) == CHOOSE x \in S : \A y \in S : x <= y

\* str.lower() on one character
LowerChar(c) ==
    IF c \in Range(UpperLetters)
    THEN LowerLetters[CHOOSE k \in DOMAIN UpperLetters : UpperLetters[k] = c]
    ELSE c

\* str.lower()
Lower(s) == [k \in DOMAIN s |-> LowerChar(s[k])]

\* str.strip(): leading and trailing whitespace removed
Strip(s) ==
    LET keep == {k \in DOMAIN s : s[k] \notin Whitespace}
    IN  IF keep = {} THEN <<>> ELSE SubSeq(s, Min(keep), Max(keep))

\* str.startswith(p)
StartsWith(s, p) == Len(p) <= Len(s) /\ SubSeq(s, 1, Len(p)) = p

\* `t in s` on strings: t is a substring of s
Contains(s, t) ==
    \E i \in 1..(Len(s) - Len(t) + 1) : SubSeq(s, i, i + Len(t) - 1) = t

\* The first index >= i of s whose character is not in class (past the end if none).
Run(s, i, class) ==
    Min({k \in i..Len(s) : s[k] \notin class} \cup {Max({i, Len(s) + 1})})

\* The sequence xs without its elements outside keep, order kept.
FilterSeq(xs, keep) ==
    LET Test(x) == x \in keep IN SelectSeq(xs, Test)

\* ------------------------------------------------------------------------
\* Regular expressions (the fragment the scraper's patterns use)
\* ------------------------------------------------------------------------

\* A match that fails; positions of a string start at 1.
NoMatch == 0

\* [-.\s]
SepClass == {"-", "."} \cup Whitespace

\* a literal, [-.\s]? and \d{n}
Lit(s) == [k |-> "lit", s |-> s, n |-> 0]

OptSep == [k |-> "optsep", s |-> <<>>, n |-> 0]

Digits(n) == [k |-> "digits", s |-> <<>>, n |-> n]

\* The position after the match of pat[k..] at position i of s, or NoMatch.
\* The optional separator is greedy and backtracks, as re does.
RECURSIVE MatchAt(_, _, _, _)
MatchAt(pat, k, s, i) ==
    IF k > Len(pat) THEN i
    ELSE LET e == pat[k] IN
         CASE e.k = "lit" ->
                IF i + Len(e.s) - 1 <= Len(s) /\ SubSeq(s, i, i + Len(e.s) - 1) = e.s
                THEN MatchAt(pat, k + 1, s, i + Len(e.s))
                ELSE NoMatch
           [] e.k = "optsep" ->
                LET taken == IF i <= Len(s) /\ s[i] \in SepClass
                             THEN MatchAt(pat, k + 1, s, i + 1)
                             ELSE NoMatch
                IN  IF taken # NoMatch THEN taken ELSE MatchAt(pat, k + 1, s, i)
           [] e.k = "digits" ->
                IF i + e.n - 1 <= Len(s) /\ \A j \in i..(i + e.n - 1) : s[j] \in Digit
                THEN MatchAt(pat, k + 1, s, i + e.n)
                ELSE NoMatch

\* re.findall(pattern, s) from position i on: the non-overlapping matches,
\* leftmost first.
RECURSIVE FindAllFrom(_, _, _)
FindAllFrom(pat, s, i) ==
    LET starts == {j \in i..Len(s) : MatchAt(pat, 1, s, j) # NoMatch} IN
    IF starts = {} THEN <<>>
    ELSE LET j == Min(starts)
             e == MatchAt(pat, 1, s, j)
         IN  <<SubSeq(s, j, e - 1)>> \o FindAllFrom(pat, s, e)

FindAll(pat, s) == FindAllFrom(pat, s, 1)

\* [a-zA-Z0-9._%+-]
EmailLocalClass == Letter \cup Digit \cup {".", "_", "%", "+", "-"}

\* [a-zA-Z0-9.-]
EmailDomainClass == Letter \cup Digit \cup {".", "-"}

\* email_pattern at position i of s: the position after the match, or NoMatch.
\* The local part is the longest run before "@"; the domain part is cut at the
\* last "." of its run that two letters follow (greedy, backtracking), and the
\* final label takes every letter that follows.
EmailAt(s, i) ==
    LET a == Run(s, i, EmailLocalClass) IN
    IF a = i \/ a > Len(s) \/ s[a] # "@" THEN NoMatch
    ELSE LET d  == a + 1
             e  == Run(s, d, EmailDomainClass)
             js == {j \in 1..(e - d - 1) :
                      /\ s[d + j] = "."
                      /\ d + j + 2 <= Len(s)
                      /\ s[d + j + 1] \in Letter
                      /\ s[d + j + 2] \in Letter}
         IN  IF js = {} THEN NoMatch ELSE Run(s, d + Max(js) + 1, Letter)

\* re.findall(self.email_pattern, s) from position i on
RECURSIVE FindEmailsFrom(_, _)
FindEmailsFrom(s, i) ==
    LET starts == {j \in i..Len(s) : EmailAt(s, j) # NoMatch} IN
    IF starts = {} THEN <<>>
    ELSE LET j == Min(starts)
             e == EmailAt(s, j)
         IN  <<SubSeq(s, j, e - 1)>> \o FindEmailsFrom(s, e)

\* ------------------------------------------------------------------------
\* The configuration set by __init__
\* ------------------------------------------------------------------------

\* r'91[-.\s]?\d{10}'
Pattern91 == <<Lit(<<"9","1">>), OptSep, Digits(10)>>

\* r'\+91[-.\s]?\d{10}'
PatternPlus91 == <<Lit(<<"+","9","1">>), OptSep, Digits(10)>>

\* r'91[-.\s]?\d{3}[-.\s]?\d{3}[-.\s]?\d{4}'
Pattern91Split == <<Lit(<<"9","1">>), OptSep, Digits(3), OptSep, Digits(3), OptSep, Digits(4)>>

\* r'\+91[-.\s]?\d{3}[-.\s]?\d{3}[-.\s]?\d{4}'
PatternPlus91Split == <<Lit(<<"+","9","1">>), OptSep, Digits(3), OptSep, Digits(3), OptSep, Digits(4)>>

DefaultPhonePatterns == <<Pattern91, PatternPlus91, Pattern91Split, PatternPlus91Split>>

\* r'91[-.\s]?\d{5}[-.\s]?\d{5}', the pattern the example usage adds
Pattern91FiveFive == <<Lit(<<"9","1">>), OptSep, Digits(5), OptSep, Digits(5)>>

DefaultContactTerms ==
    << <<"c","o","n","t","a","c","t">>,
       <<"c","o","n","t","a","c","t"," ","u","s">>,
       <<"g","e","t"," ","i","n"," ","t","o","u","c","h">>,
       <<"r","e","a","c","h"," ","u","s">> >>

\* ------------------------------------------------------------------------
\* extract_contact_info
\* ------------------------------------------------------------------------

\* phone_numbers: the matches of every pattern, pattern by pattern
RECURSIVE PhoneMatches(_, _)
PhoneMatches(patterns, html) ==
    IF patterns = <<>> THEN <<>>
    ELSE FindAll(Head(patterns), html) \o PhoneMatches(Tail(patterns), html)

\* re.sub(r'[-.\s()]', '', phone)
Cleaned(phone) ==
    LET dropped == SepClass \cup {"(", ")"}
    IN  FilterSeq(phone, Range(phone) \ dropped)

\* The test that keeps a matched phone: its cleaned form starts with +91 or 91.
IsIndian(phone) ==
    \/ StartsWith(Cleaned(phone), <<"+","9","1">>)
    \/ StartsWith(Cleaned(phone), <<"9","1">>)

\* extract_contact_info(html) under the given phone patterns:
\* the unique emails and the unique kept phones.
ExtractContactInfo(patterns, html) ==
    LET emails          == FindEmailsFrom(html, 1)
        phone_numbers   == PhoneMatches(patterns, html)
        filtered_phones == {p \in Range(phone_numbers) : IsIndian(p)}
    IN  [emails |-> Range(emails), phones |-> filtered_phones]

\* ------------------------------------------------------------------------
\* Optional values (Python's None)
\* ------------------------------------------------------------------------

None == [some |-> FALSE]

Some(v) == [some |-> TRUE, val |-> v]

\* Python truthiness of an optional string: None and '' are falsy.
Truthy(x) == x.some /\ x.val # <<>>

\* ------------------------------------------------------------------------
\* URLs: urllib.parse.urljoin on strings without dot segments
\* ------------------------------------------------------------------------

SchemeChars == Letter \cup Digit \cup {"+", "-", "."}

\* The lower-cased scheme of url, or <<>> when it has none (urlsplit).
Scheme(url) ==
    LET colons == {k \in DOMAIN url : url[k] = ":"} IN
    IF colons = {} THEN <<>>
    ELSE LET i == Min(colons) IN
         IF i > 1 /\ url[1] \in Letter /\ \A k \in 1..(i - 1) : url[k] \in SchemeChars
         THEN Lower(SubSeq(url, 1, i - 1))
         ELSE <<>>

\* url without its scheme and the colon after it
AfterScheme(url) ==
    IF Scheme(url) = <<>> THEN url
    ELSE SubSeq(url, Len(Scheme(url)) + 2, Len(url))

\* Whether url names a network location ("//" follows the scheme).
HasNetloc(url) == StartsWith(AfterScheme(url), <<"/","/">>)

\* The network location of url (<<>> when it names none).
Netloc(url) ==
    IF ~HasNetloc(url) THEN <<>>
    ELSE LET r == AfterScheme(url)
         IN  SubSeq(r, 3, Run(r, 3, Range(r) \ {"/", "?", "#"}) - 1)

\* What follows the network location: path, query and fragment.
PathOf(url) ==
    LET r == AfterScheme(url)
    IN  IF HasNetloc(url) THEN SubSeq(r, 3 + Len(Netloc(url)), Len(r)) ELSE r

\* The schemes urljoin resolves relative references for (uses_relative),
\* among those the model's URLs use.
UsesRelative == {<<"h","t","t","p">>, <<"h","t","t","p","s">>}

\* The base path up to and including its last "/".
BaseDir(path) ==
    LET slashes == {k \in DOMAIN path : path[k] = "/"}
    IN  IF slashes = {} THEN <<"/">> ELSE SubSeq(path, 1, Max(slashes))

\* urljoin(base, href); base has a scheme in UsesRelative and no query or fragment
UrlJoin(base, href) ==
    LET bscheme == Scheme(base)
        scheme  == IF Scheme(href) = <<>> THEN bscheme ELSE Scheme(href)
        origin  == bscheme \o <<":","/","/">> \o Netloc(base)
        rest    == AfterScheme(href)
    IN  IF href = <<>> THEN base
        ELSE IF scheme # bscheme \/ scheme \notin UsesRelative THEN href
        ELSE IF HasNetloc(href) THEN scheme \o <<":">> \o rest
        ELSE IF rest = <<>> THEN base
        ELSE IF rest[1] \in {"#", "?"} THEN base \o rest
        ELSE IF rest[1] = "/" THEN origin \o rest
        ELSE origin \o BaseDir(PathOf(base)) \o rest

\* ------------------------------------------------------------------------
\* Documents: a page is a sequence of nodes, text or anchor. response.text is
\* its serialisation and BeautifulSoup(html, 'html.parser') gives the nodes back.
\* ------------------------------------------------------------------------

TextNode(text) == [tag |-> "#text", href |-> None, text |-> text]

Anchor(href, text) == [tag |-> "a", href |-> Some(href), text |-> text]

AnchorNoHref(text) == [tag |-> "a", href |-> None, text |-> text]

\* The HTML text of one node
NodeHtml(n) ==
    IF n.tag = "#text" THEN n.text
    ELSE IF n.href.some
         THEN <<"<","a"," ","h","r","e","f","=","\"">> \o n.href.val \o <<"\"",">">>
              \o n.text \o <<"<","/","a",">">>
         ELSE <<"<","a",">">> \o n.text \o <<"<","/","a",">">>

\* The HTML text of a page
RECURSIVE Html(_)
Html(dom) == IF dom = <<>> THEN <<>> ELSE NodeHtml(Head(dom)) \o Html(Tail(dom))

\* soup.find_all('a', href=True)
AnchorsWithHref(dom) == {n \in Range(dom) : n.tag = "a" /\ n.href.some}

\* ------------------------------------------------------------------------
\* find_contact_links
\* ------------------------------------------------------------------------

\* The test of line 109: some term is in the stripped, lower-cased link text
\* or in the lower-cased href. The terms are used as configured.
IsContactLink(terms, link) ==
    LET link_text == Lower(Strip(link.text))
        link_href == Lower(link.href.val)
    IN  \E i \in DOMAIN terms :
            Contains(link_text, terms[i]) \/ Contains(link_href, terms[i])

\* find_contact_links(soup, base_url): the set of resolved URLs of the anchors
\* that pass the test
FindContactLinks(terms, dom, base_url) ==
    {UrlJoin(base_url, link.href.val) :
        link \in {a \in AnchorsWithHref(dom) : IsContactLink(terms, a)}}

\* BeautifulSoup(html, 'html.parser') from position i on: "<a ...>text</a>"
\* becomes an anchor node, with its href when the tag carries one, and the
\* text between tags a text node.
RECURSIVE ParseFrom(_, _)
ParseFrom(html, i) ==
    IF i > Len(html) THEN <<>>
    ELSE IF html[i] = "<"
    THEN LET gt    == Run(html, i, Range(html) \ {">"})
             attrs == SubSeq(html, i + 2, gt - 1)
             pre   == <<" ","h","r","e","f","=","\"">>
             href  == IF StartsWith(attrs, pre)
                      THEN Some(SubSeq(attrs, Len(pre) + 1, Len(attrs) - 1))
                      ELSE None
             close == Run(html, gt + 1, Range(html) \ {"<"})
         IN  <<[tag |-> "a", href |-> href, text |-> SubSeq(html, gt + 1, close - 1)]>>
             \o ParseFrom(html, close + 4)
    ELSE LET j == Run(html, i, Range(html) \ {"<"})
         IN  <<TextNode(SubSeq(html, i, j - 1))>> \o ParseFrom(html, j)

ParseHtml(html) == ParseFrom(html, 1)

\* ------------------------------------------------------------------------
\* The web the fetcher reads: pages and failures
\* ------------------------------------------------------------------------

MainUrl == <<"h","t","t","p",":","/","/","a">>

ContactUrl == <<"h","t","t","p",":","/","/","a","/","c","o","n","t","a","c","t">>

ReachUrl == <<"h","t","t","p",":","/","/","a","/","r","e","a","c","h">>

OtherHostUrl == <<"h","t","t","p",":","/","/","b","/","c","o","n","t","a","c","t">>

MailtoUrl == <<"m","a","i","l","t","o",":","c","o","n","t","a","c","t","@","a">>

\* "Email us: a@b.com or a@b.com. Call 91-9876543210."
DocScenarioA == <<"E","m","a","i","l"," ","u","s",":"," ","a","@","b",".","c","o","m"," ","o","r"," ","a","@","b",".","c","o","m","."," ","C","a","l","l"," ","9","1","-","9","8","7","6","5","4","3","2","1","0",".">>

\* "Call +91 987 654 3210 or 044-2345678"
DocScenarioB == <<"C","a","l","l"," ","+","9","1"," ","9","8","7"," ","6","5","4"," ","3","2","1","0"," ","o","r"," ","0","4","4","-","2","3","4","5","6","7","8">>

\* A main page without anchors.
MainPlain == <<TextNode(DocScenarioA)>>

\* A main page without a phone: <a href="/contact"> Contact Us </a>, <a href="/">Home</a>
MainOneLink ==
    << TextNode(<<"W","e","l","c","o","m","e"," ","t","o"," ","o","u","r"," ","s","i","t","e"," ">>),
       Anchor(<<"/","c","o","n","t","a","c","t">>, <<" ","C","o","n","t","a","c","t"," ","U","s"," ">>),
       Anchor(<<"/">>, <<"H","o","m","e">>) >>

\* A main page with a phone: <a href="/contact">Contact Us</a>,
\* <a href="reach">Reach us</a>, <a>contact</a>
MainTwoLinks ==
    << TextNode(DocScenarioB),
       Anchor(<<"/","c","o","n","t","a","c","t">>, <<"C","o","n","t","a","c","t"," ","U","s">>),
       Anchor(<<"r","e","a","c","h">>, <<"R","e","a","c","h"," ","u","s">>),
       AnchorNoHref(<<"c","o","n","t","a","c","t">>) >>

\* A main page whose anchors leave the site:
\* <a href="http://b/contact">Contact</a>, <a href="mailto:contact@a">Email</a>
MainOffSite ==
    << TextNode(DocScenarioA),
       Anchor(OtherHostUrl, <<"C","o","n","t","a","c","t">>),
       Anchor(MailtoUrl, <<"E","m","a","i","l">>) >>

\* A main page whose contact anchor points at the page itself:
\* <a href="http://a">Contact</a>
MainSelfLink ==
    << TextNode(DocScenarioA),
       Anchor(MainUrl, <<"C","o","n","t","a","c","t">>) >>

\* "Write to info@a.in or call 044-2345678" and <a href="/more">More contact</a>
ContactNoPhone ==
    << TextNode(<<"W","r","i","t","e"," ","t","o"," ","i","n","f","o","@","a",".","i","n"," ","o","r"," ","c","a","l","l"," ","0","4","4","-","2","3","4","5","6","7","8">>),
       Anchor(<<"/","m","o","r","e">>, <<"M","o","r","e"," ","c","o","n","t","a","c","t">>) >>

\* "Call 91-1234567890 " and <a href="/more">More contact</a>
ContactPhoneA ==
    << TextNode(<<"C","a","l","l"," ","9","1","-","1","2","3","4","5","6","7","8","9","0"," ">>),
       Anchor(<<"/","m","o","r","e">>, <<"M","o","r","e"," ","c","o","n","t","a","c","t">>) >>

\* "sales@a.in +91-9876543210"
ContactPhoneB == <<TextNode(<<"s","a","l","e","s","@","a",".","i","n"," ","+","9","1","-","9","8","7","6","5","4","3","2","1","0">>)>>

\* What requests.get and raise_for_status give for a URL: a response whose
\* text is the page, or an exception e with str(e) = error.
Page(dom) == [ok |-> TRUE, text |-> Html(dom), error |-> <<>>]

Failure(error) == [ok |-> FALSE, text |-> <<>>, error |-> error]

\* str(e) of an HTTPError
NotFound == Failure(<<"4","0","4"," ","N","o","t"," ","F","o","u","n","d">>)

\* An exception whose str(e) is the empty string.
NoMessage == Failure(<<>>)

\* str(e) of the InvalidSchema requests raises for a URL that is not HTTP
NoAdapter == Failure(<<"N","o"," ","c","o","n","n","e","c","t","i","o","n"," ","a","d","a","p","t","e","r","s">>)

MainResults == {Page(MainPlain), Page(MainOneLink), Page(MainTwoLinks), Page(MainOffSite),
                Page(MainSelfLink),
                NotFound, NoMessage}

ContactResults == {Page(ContactNoPhone), Page(ContactPhoneA), Page(ContactPhoneB),
                   NotFound, NoMessage}

\* The URLs of every anchor of the main page m that carries an href.
LinkedFrom(m) ==
    IF m.ok THEN {UrlJoin(MainUrl, a.href.val) : a \in AnchorsWithHref(ParseHtml(m.text))}
    ELSE {}

\* The HTTP URLs the model's pages link to and whose fetch result varies.
ContactUrls == {ContactUrl, ReachUrl, OtherHostUrl}

\* The webs of the model: a result for the main URL and one for every contact
\* URL the main page links to. A URL that is not HTTP never fetches.
Webs ==
    UNION { { [u \in {MainUrl} \cup LinkedFrom(m) |->
                 IF u = MainUrl THEN m
                 ELSE IF u \in ContactUrls THEN f[u]
                 ELSE IF Scheme(u) \in UsesRelative THEN NotFound
                 ELSE NoAdapter]
              : f \in [LinkedFrom(m) \cap ContactUrls -> ContactResults] }
            : m \in MainResults }

\* ------------------------------------------------------------------------
\* get_page_content
\* ------------------------------------------------------------------------

\* get_page_content(url) in web w: (response.text, None) or (None, str(e)).
\* A URL outside the web does not exist.
GetPageContent(w, u) ==
    LET r == IF u \in DOMAIN w THEN w[u] ELSE NotFound
    IN  IF r.ok THEN [content |-> Some(r.text), error |-> None]
        ELSE [content |-> None, error |-> Some(r.error)]

\* ------------------------------------------------------------------------
\* State
\* ------------------------------------------------------------------------

VARIABLES
    phone_patterns,   \* self.phone_patterns
    contact_terms,    \* self.contact_terms
    config_calls,     \* how many configuration methods were called
    web,              \* what each URL gives when fetched
    pc,               \* idle, contacts (in the loop of line 171), resolved
                      \* (returned), raised (left by an exception), extracted
    url,              \* the url argument of scrape_website_prioritized
    main_emails,      \* lines 162: the main page's extraction
    main_phones,
    contact_links,    \* line 166
    pending,          \* the links the loop of line 171 has not reached yet
    results,          \* the results dictionary
    fetched,          \* the URLs get_page_content was called with, in order
    exception,        \* the exception that left the call, if one did
    extracted,        \* the value of a direct call of extract_contact_info
    batch_pc,         \* process_urls: none (not called), loop, scraping, done,
                      \* aborted (left by an exception)
    df,               \* the 'Contact Website' column of output.csv
    start_row,        \* the arguments of process_urls
    end_row,
    index,            \* how many rows of df the loop of line 17 has passed
    contact_website,  \* line 19-23
    contact_details,  \* line 13
    failed_urls,      \* line 14
    outcomes          \* the outcomes scrape_website_prioritized returned, by row

vars == <<phone_patterns, contact_terms, config_calls, web, pc, url, main_emails,
          main_phones, contact_links, pending, results, fetched, exception, extracted,
          batch_pc, df, start_row, end_row, index, contact_website, contact_details,
          failed_urls, outcomes>>

batch == <<batch_pc, df, start_row, end_row, index, contact_website, contact_details,
           failed_urls, outcomes>>

config == <<phone_patterns, contact_terms, config_calls>>

scrape == <<url, main_emails, main_phones, contact_links, pending, results, fetched,
            exception>>

\* The most calls of configuration methods before the scraper is used.
MaxConfigCalls == 2

\* The lists set_contact_terms is called with.
TermLists == { << <<"C","o","n","t","a","c","t">> >>,
               << <<"r","e","a","c","h"," ","u","s">> >> }

\* The terms add_contact_term is called with.
AddedTerms == { <<"E","m","a","i","l">> }

\* The patterns add_phone_pattern is called with.
AddedPatterns == { Pattern91FiveFive }

\* The documents extract_contact_info is called with directly.
Documents == { DocScenarioA, DocScenarioB, Html(ContactPhoneB), <<>> }

\* The url arguments of scrape_website_prioritized.
InputUrls == { MainUrl }

\* lines 146-152
EmptyResults ==
    [source |-> None, source_url |-> None, emails |-> {}, phones |-> {}, errors |-> <<>>]

Init ==
    /\ phone_patterns = DefaultPhonePatterns
    /\ contact_terms = DefaultContactTerms
    /\ config_calls = 0
    /\ web \in Webs
    /\ pc = "idle"
    /\ url = None
    /\ main_emails = {}
    /\ main_phones = {}
    /\ contact_links = {}
    /\ pending = {}
    /\ results = EmptyResults
    /\ fetched = <<>>
    /\ exception = None
    /\ extracted = None
    /\ batch_pc = "none"
    /\ df = <<>>
    /\ start_row = 0
    /\ end_row = 0
    /\ index = 0
    /\ contact_website = None
    /\ contact_details = <<>>
    /\ failed_urls = <<>>
    /\ outcomes = <<>>

\* ------------------------------------------------------------------------
\* Configuration methods
\* ------------------------------------------------------------------------

Configurable == pc = "idle" /\ config_calls < MaxConfigCalls

\* set_contact_terms(terms)
SetContactTerms(terms) ==
    /\ Configurable
    /\ contact_terms' = terms
    /\ config_calls' = config_calls + 1
    /\ UNCHANGED <<phone_patterns, web, pc, scrape, extracted, batch>>

\* add_contact_term(term)
AddContactTerm(term) ==
    /\ Configurable
    /\ Len(contact_terms) < MaxContactTerms
    /\ contact_terms' = Append(contact_terms, Lower(term))
    /\ config_calls' = config_calls + 1
    /\ UNCHANGED <<phone_patterns, web, pc, scrape, extracted, batch>>

\* add_phone_pattern(pattern)
AddPhonePattern(pattern) ==
    /\ Configurable
    /\ Len(phone_patterns) < MaxPhonePatterns
    /\ phone_patterns' = Append(phone_patterns, pattern)
    /\ config_calls' = config_calls + 1
    /\ UNCHANGED <<contact_terms, web, pc, scrape, extracted, batch>>

\* ------------------------------------------------------------------------
\* A direct call of extract_contact_info. It changes nothing of the scraper;
\* the model keeps its value and ends the run there.
\* ------------------------------------------------------------------------

ExtractCall(html) ==
    /\ pc = "idle"
    /\ extracted' = Some([html |-> html, value |-> ExtractContactInfo(phone_patterns, html)])
    /\ pc' = "extracted"
    /\ UNCHANGED <<config, web, scrape, batch>>

\* ------------------------------------------------------------------------
\* scrape_website_prioritized
\* ------------------------------------------------------------------------

\* line 158
MainPageError(error) ==
    <<"E","r","r","o","r"," ","f","e","t","c","h","i","n","g"," ","m","a","i","n"," ","p","a","g","e",":"," ">>
    \o error

\* line 175
ContactPageError(link, error) ==
    <<"E","r","r","o","r"," ","f","e","t","c","h","i","n","g"," ","c","o","n","t","a","c","t"," ","p","a","g","e"," ">>
    \o link \o <<":"," ">> \o error

\* `if error:` of lines 157 and 174
IsError(error) == Truthy(error)

\* A loop that stops at the first page it could fetch, phones or not.
FoundPhonesOnAnyPage(contact_phones) == TRUE

\* `if contact_phones:` of line 181
FoundPhones(contact_phones) == contact_phones # {}

\* A result that takes the contact page's phones and forgets its emails.
ContactPageResultsKeepsEmails(res, link, contact_emails, contact_phones) ==
    [res EXCEPT !.source = Some("contact_page"), !.source_url = Some(link),
                !.phones = contact_phones]

\* lines 182-185
ContactPageResults(res, link, contact_emails, contact_phones) ==
    [res EXCEPT !.source = Some("contact_page"), !.source_url = Some(link),
                !.emails = contact_emails, !.phones = contact_phones]

\* A fallback that names the main page and drops its phones.
MainPageResultsDropsPhones(res, u, emails, phones) ==
    [res EXCEPT !.source = Some("main_page"), !.source_url = Some(u),
                !.emails = emails]

\* lines 190-193
MainPageResults(res, u, emails, phones) ==
    [res EXCEPT !.source = Some("main_page"), !.source_url = Some(u),
                !.emails = emails, !.phones = phones]

\* A loop that ends after its first turn (break for continue).
RestAfterBreak(links, link) == {}

\* A crawler that also queues the contact links of the page it has just read.
RestFollowsLinks(links, link) ==
    LET r == IF link \in DOMAIN web THEN web[link] ELSE NotFound
    IN  (links \ {link}) \cup
        (IF r.ok THEN FindContactLinks(contact_terms, ParseHtml(r.text), link) \ {link}
         ELSE {})

\* The links the loop of line 171 still has to reach after its turn on link.
Rest(links, link) == links \ {link}

\* The exception re.findall raises when html_content is None (line 72).
Raise(name) ==
    /\ pc' = "raised"
    /\ exception' = Some(name)

\* Lines 146-169: the main page is fetched; with an error the call returns,
\* otherwise its contacts are extracted and its contact links found.
ScrapeMain(u) ==
    /\ pc = "idle"
    /\ url' = Some(u)
    /\ fetched' = <<u>>
    /\ LET page == GetPageContent(web, u) IN
       IF IsError(page.error)
       THEN /\ results' = [EmptyResults EXCEPT !.errors = <<MainPageError(page.error.val)>>]
            /\ pc' = "resolved"
            /\ UNCHANGED <<main_emails, main_phones, contact_links, pending, exception>>
       ELSE IF ~page.content.some
       THEN /\ Raise("TypeError")
            /\ results' = EmptyResults
            /\ UNCHANGED <<main_emails, main_phones, contact_links, pending>>
       ELSE LET main  == ExtractContactInfo(phone_patterns, page.content.val)
                links == FindContactLinks(contact_terms, ParseHtml(page.content.val), u)
            IN  /\ main_emails' = main.emails
                /\ main_phones' = main.phones
                /\ contact_links' = links
                /\ pending' = links
                /\ results' = EmptyResults
                /\ pc' = "contacts"
                /\ UNCHANGED exception
    /\ UNCHANGED <<config, web, extracted, batch>>

\* Lines 171-186: one turn of the loop, on a link the loop has not reached yet
\* (list(set(...)) fixes no order).
VisitContactPage(link) ==
    /\ pc = "contacts"
    /\ link \in pending
    /\ fetched' = Append(fetched, link)
    /\ pending' = Rest(pending, link)
    /\ LET page == GetPageContent(web, link) IN
       IF IsError(page.error)
       THEN /\ results' = [results EXCEPT
                             !.errors = Append(@, ContactPageError(link, page.error.val))]
            /\ UNCHANGED <<pc, exception>>
       ELSE IF ~page.content.some
       THEN /\ Raise("TypeError")
            /\ UNCHANGED results
       ELSE LET contact == ExtractContactInfo(phone_patterns, page.content.val) IN
            IF FoundPhones(contact.phones)
            THEN /\ results' = ContactPageResults(results, link, contact.emails, contact.phones)
                 /\ pc' = "resolved"
                 /\ UNCHANGED exception
            ELSE UNCHANGED <<results, pc, exception>>
    /\ UNCHANGED <<config, web, url, main_emails, main_phones, contact_links, extracted,
                   batch>>

\* Line 171: the loop takes its next link.
VisitNextContactPage == \E link \in pending : VisitContactPage(link)

\* Lines 188-195: no contact page gave phones, the main page's data is returned.
UseMainPage ==
    /\ pc = "contacts"
    /\ pending = {}
    /\ results' = MainPageResults(results, url.val, main_emails, main_phones)
    /\ pc' = "resolved"
    /\ UNCHANGED <<config, web, url, main_emails, main_phones, contact_links, pending,
                   fetched, exception, extracted, batch>>

Next ==
    \/ \E terms \in TermLists : SetContactTerms(terms)
    \/ \E term \in AddedTerms : AddContactTerm(term)
    \/ \E pattern \in AddedPatterns : AddPhonePattern(pattern)
    \/ \E html \in Documents : ExtractCall(html)
    \/ \E u \in InputUrls : ScrapeMain(u)
    \/ VisitNextContactPage
    \/ UseMainPage

Spec == Init /\ [][Next]_vars

\* ------------------------------------------------------------------------
\* process_urls (src/extract_and_scrape.py)
\* ------------------------------------------------------------------------

\* The most rows output.csv holds.
MaxRows == 2

\* The cells of the 'Contact Website' column: a URL, a bare host name, or
\* an empty cell, which pandas reads as NaN (None here).
Websites == { Some(MainUrl), Some(<<"a">>), None }

\* lines 22-23
WithScheme(website) ==
    IF StartsWith(website, <<"h","t","t","p">>) THEN website
    ELSE <<"h","t","t","p","s",":","/","/">> \o website

\* line 30
IndianPhones(phones) ==
    {phone \in phones :
        StartsWith(phone, <<"9","1">>) \/ StartsWith(phone, <<"+","9","1">>)}

\* process_urls(start_row, end_row) has been called on some output.csv, with a
\* new ContactScraper().
BatchInit ==
    /\ phone_patterns = DefaultPhonePatterns
    /\ contact_terms = DefaultContactTerms
    /\ config_calls = 0
    /\ web \in Webs
    /\ pc = "idle"
    /\ url = None
    /\ main_emails = {}
    /\ main_phones = {}
    /\ contact_links = {}
    /\ pending = {}
    /\ results = EmptyResults
    /\ fetched = <<>>
    /\ exception = None
    /\ extracted = None
    /\ batch_pc = "loop"
    /\ df \in [1..MaxRows -> Websites]
    /\ start_row \in 0..MaxRows
    /\ end_row \in start_row..MaxRows
    /\ index = start_row
    /\ contact_website = None
    /\ contact_details = <<>>
    /\ failed_urls = <<>>
    /\ outcomes = <<>>

\* The locals of scrape_website_prioritized once the call is over.
ScrapeOver ==
    /\ pc' = "idle"
    /\ url' = None
    /\ main_emails' = {}
    /\ main_phones' = {}
    /\ contact_links' = {}
    /\ pending' = {}
    /\ results' = EmptyResults
    /\ fetched' = <<>>
    /\ exception' = None

\* Lines 17-23: the loop takes its next row. The startswith of line 22 is
\* outside the try: on a NaN cell it raises AttributeError out of process_urls.
NextRow ==
    /\ batch_pc = "loop"
    /\ index < end_row
    /\ LET website == df[index + 1] IN
       IF website.some
       THEN /\ contact_website' = Some(WithScheme(website.val))
            /\ batch_pc' = "scraping"
            /\ UNCHANGED exception
       ELSE /\ batch_pc' = "aborted"
            /\ exception' = Some("AttributeError")
            /\ UNCHANGED contact_website
    /\ UNCHANGED <<config, web, pc, url, main_emails, main_phones, contact_links, pending,
                   results, fetched, extracted, df, start_row, end_row, index,
                   contact_details, failed_urls, outcomes>>

\* Line 27: scrape_website_prioritized(contact_website) is called.
ScrapeRow ==
    /\ batch_pc = "scraping"
    /\ ScrapeMain(contact_website.val)

\* Lines 30-53: the call returned; the row goes to contact_details when the
\* outcome has an Indian phone and to failed_urls otherwise.
RecordRow ==
    /\ batch_pc = "scraping"
    /\ pc = "resolved"
    /\ LET indian_phones == IndianPhones(results.phones) IN
       IF indian_phones # {}
       THEN /\ contact_details' =
                  Append(contact_details,
                         [row |-> index + 1, website |-> contact_website.val,
                          phones |-> indian_phones, emails |-> results.emails,
                          source_url |-> results.source_url])
            /\ UNCHANGED failed_urls
       ELSE /\ failed_urls' =
                  Append(failed_urls, [row |-> index + 1, website |-> contact_website.val])
            /\ UNCHANGED contact_details
    /\ outcomes' = Append(outcomes, [row |-> index + 1, phones |-> results.phones])
    /\ index' = index + 1
    /\ batch_pc' = "loop"
    /\ ScrapeOver
    /\ UNCHANGED <<config, web, extracted, df, start_row, end_row, contact_website>>

\* Lines 54-55: the call raised; the bare except prints and the loop goes on.
SkipRow ==
    /\ batch_pc = "scraping"
    /\ pc = "raised"
    /\ index' = index + 1
    /\ batch_pc' = "loop"
    /\ ScrapeOver
    /\ UNCHANGED <<config, web, extracted, df, start_row, end_row, contact_website,
                   contact_details, failed_urls, outcomes>>

\* The loop of line 17 is over.
FinishBatch ==
    /\ batch_pc = "loop"
    /\ index >= end_row
    /\ batch_pc' = "done"
    /\ UNCHANGED <<config, web, pc, scrape, extracted, df, start_row, end_row, index,
                   contact_website, contact_details, failed_urls, outcomes>>

BatchNext ==
    \/ NextRow
    \/ ScrapeRow
    \/ VisitNextContactPage
    \/ UseMainPage
    \/ RecordRow
    \/ SkipRow
    \/ FinishBatch

BatchSpec == BatchInit /\ [][BatchNext]_vars

\* ------------------------------------------------------------------------
\* Properties
\* ------------------------------------------------------------------------

\* A call of scrape_website_prioritized has started.
Called == url.some

\* What the web gives for a URL.
ResultOf(u) == IF u \in DOMAIN web THEN web[u] ELSE NotFound

\* The main page's fetch succeeded / failed.
MainFetched == Called /\ ResultOf(url.val).ok

MainFailed == Called /\ ~ResultOf(url.val).ok

\* The extraction of the page at u, under the configured patterns.
ExtractionOf(u) == ExtractContactInfo(phone_patterns, ResultOf(u).text)

\* u fetches successfully and its extraction has a phone.
YieldsPhones(u) == ResultOf(u).ok /\ ExtractionOf(u).phones # {}

\* The candidates fetched so far, in order (the first fetch is the main page's).
Visited == IF fetched = <<>> THEN <<>> ELSE Tail(fetched)

RefersToMainPage(entry) ==
    StartsWith(entry, <<"E","r","r","o","r"," ","f","e","t","c","h","i","n","g"," ","m","a","i","n"," ","p","a","g","e">>)

\* C1: whenever the main page's fetch fails, whatever the failure's message,
\* the call returns an outcome with no source, no source URL, no emails, no
\* phones and exactly one error, which refers to the main page, and no
\* candidate is fetched.
C1_MainFailureOutcome ==
    MainFailed =>
        /\ pc = "resolved"
        /\ results.source = None
        /\ results.source_url = None
        /\ results.emails = {}
        /\ results.phones = {}
        /\ Len(results.errors) = 1
        /\ RefersToMainPage(results.errors[1])
        /\ fetched = <<url.val>>

\* C2: in every outcome returned after the main page was fetched, the source
\* is a contact page exactly when some candidate fetches successfully and
\* yields phones; and then the outcome's phones are not empty and its source
\* URL is one of the candidates find_contact_links returned.
C2_ContactPageIffPhones ==
    (pc = "resolved" /\ MainFetched) =>
        /\ results.source = Some("contact_page")
             <=> \E c \in contact_links : YieldsPhones(c)
        /\ results.source = Some("contact_page") =>
             /\ results.phones # {}
             /\ results.source_url.some
             /\ results.source_url.val \in contact_links

\* C2's case: a contact page won although another candidate gave no phones.
C2_Witness ==
    /\ pc = "resolved"
    /\ results.source = Some("contact_page")
    /\ \E c \in contact_links : ~YieldsPhones(c)

\* C3: whenever the outcome's source is the main page, its source URL is the
\* input URL and its emails and phones are the main page's own extraction
\* (an empty phone set included), and no candidate yields phones.
C3_MainPageFallback ==
    (pc = "resolved" /\ results.source = Some("main_page")) =>
        /\ results.source_url = url
        /\ results.emails = ExtractionOf(url.val).emails
        /\ results.phones = ExtractionOf(url.val).phones
        /\ \A c \in contact_links : ~YieldsPhones(c)

\* C3's case: the main page, with phones of its own, won after a contact page
\* was fetched successfully and gave emails but no phones.
C3_Witness ==
    /\ pc = "resolved"
    /\ results.source = Some("main_page")
    /\ results.phones # {}
    /\ \E c \in contact_links : ResultOf(c).ok /\ ExtractionOf(c).emails # {}

\* C3's other case: the main page won with an empty phone set.
C3_WitnessNoPhones ==
    /\ pc = "resolved"
    /\ results.source = Some("main_page")
    /\ results.phones = {}
    /\ contact_links # {}

\* C4: no exception leaves scrape_website_prioritized, whatever the fetches
\* give.
C4_NoExceptionEscapes == pc # "raised" /\ exception = None

\* The candidates fetched so far whose fetch failed, in order.
FailedVisits ==
    LET Failed(u) == ~ResultOf(u).ok IN SelectSeq(Visited, Failed)

\* C5: a candidate's failed fetch does not end the call; the errors list
\* holds one entry for each failed candidate fetch, in the order of the
\* fetches, each naming its URL, and nothing else.
C5_FailedCandidateIsNonFatal ==
    MainFetched =>
        /\ pc # "raised"
        /\ Len(results.errors) = Len(FailedVisits)
        /\ \A i \in 1..Len(FailedVisits) :
              /\ i <= Len(results.errors)
              /\ Contains(results.errors[i], FailedVisits[i])
              /\ ~RefersToMainPage(results.errors[i])

\* C6: a candidate that was fetched and yields phones is the last URL fetched;
\* the call has returned with it as source URL and with its own emails and
\* phones, and no candidate fetched before it yields phones.
C6_FirstMatchShortCircuit ==
    \A k \in 1..Len(Visited) :
        YieldsPhones(Visited[k]) =>
            /\ k = Len(Visited)
            /\ pc = "resolved"
            /\ results.source = Some("contact_page")
            /\ results.source_url = Some(Visited[k])
            /\ results.emails = ExtractionOf(Visited[k]).emails
            /\ results.phones = ExtractionOf(Visited[k]).phones
            /\ \A j \in 1..(k - 1) : ~YieldsPhones(Visited[j])

\* C6's case: the first candidate with phones was reached second, with emails
\* of its own, while some candidate was left unfetched or failed before it.
C6_Witness ==
    /\ pc = "resolved"
    /\ Len(Visited) = 2
    /\ YieldsPhones(Visited[2])
    /\ results.emails # {}

\* C6's other case: the call returned at the first candidate and left another
\* one unfetched.
C6_WitnessUnfetched ==
    /\ pc = "resolved"
    /\ Len(Visited) = 1
    /\ YieldsPhones(Visited[1])
    /\ pending # {}

\* Scenario D: two candidates that both fetch successfully, one with phones.
TwoCandidatesOneWithPhones ==
    /\ Cardinality(contact_links) = 2
    /\ \A c \in contact_links : ResultOf(c).ok
    /\ Cardinality({c \in contact_links : YieldsPhones(c)}) = 1

\* C7: with two candidates that both fetch successfully and exactly one of
\* which yields phones, every returned outcome, in whichever order the
\* candidates were visited, has that candidate as its source: its URL, its
\* emails, its phones.
C7_OrderIndependentResult ==
    (pc = "resolved" /\ TwoCandidatesOneWithPhones) =>
        \A c \in contact_links :
            YieldsPhones(c) =>
                /\ results.source = Some("contact_page")
                /\ results.source_url = Some(c)
                /\ results.emails = ExtractionOf(c).emails
                /\ results.phones = ExtractionOf(c).phones

\* C7's case: the candidate without phones was visited first.
C7_Witness ==
    /\ pc = "resolved"
    /\ TwoCandidatesOneWithPhones
    /\ Len(Visited) = 2
    /\ ~YieldsPhones(Visited[1])

\* C7's other order: the candidate with phones was visited first.
C7_WitnessOtherOrder ==
    /\ pc = "resolved"
    /\ TwoCandidatesOneWithPhones
    /\ Len(Visited) = 1

\* "+91 987 654 3210"
PhoneOfScenarioB == <<"+","9","1"," ","9","8","7"," ","6","5","4"," ","3","2","1","0">>

\* C8: with the default four patterns, extract_contact_info on
\* "Call +91 987 654 3210 or 044-2345678" returns the one phone
\* "+91 987 654 3210".
C8_ScenarioB ==
    (/\ extracted.some
     /\ extracted.val.html = DocScenarioB
     /\ phone_patterns = DefaultPhonePatterns) =>
        extracted.val.value.phones = {PhoneOfScenarioB}

\* An anchor's text or href holds a term, compared without regard to case.
MatchesTerm(a, terms) ==
    \E i \in DOMAIN terms :
        \/ Contains(Lower(a.text), Lower(terms[i]))
        \/ Contains(Lower(a.href.val), Lower(terms[i]))

\* The main page's anchors that carry an href.
MainAnchors == AnchorsWithHref(ParseHtml(ResultOf(url.val).text))

\* C9: for every anchor of the main page with an href, and whichever terms
\* are configured, find_contact_links returned its resolved URL exactly when
\* its text or its href holds a term, compared without regard to case.
C9_CaseInsensitiveTerms ==
    (MainFetched /\ pc # "raised") =>
        \A a \in MainAnchors :
            UrlJoin(url.val, a.href.val) \in contact_links
                <=> MatchesTerm(a, contact_terms)

\* The host of a URL, compared without regard to case.
Host(u) == Lower(Netloc(u))

\* C10: every URL find_contact_links returned, and every candidate fetched, is
\* on the host of the main page's URL.
C10_SameSiteLinks ==
    Called =>
        /\ \A l \in contact_links : Host(l) = Host(url.val)
        /\ \A k \in 1..Len(Visited) : Host(Visited[k]) = Host(url.val)

\* How many of the fetches so far were of u.
FetchesOf(u) == Cardinality({k \in DOMAIN fetched : fetched[k] = u})

\* The contact links of the page at u, as find_contact_links would give them.
LinksOn(u) ==
    IF ResultOf(u).ok
    THEN FindContactLinks(contact_terms, ParseHtml(ResultOf(u).text), u)
    ELSE {}

\* The fetches after the first are of candidates found on the main page, each
\* fetched at most once, so that there are at most 1 + |candidates| fetches.
OnlyCandidatesOnce ==
    /\ fetched[1] = url.val
    /\ \A k \in 1..Len(Visited) : Visited[k] \in contact_links
    /\ \A j, k \in 1..Len(Visited) : Visited[j] = Visited[k] => j = k
    /\ Len(fetched) <= 1 + Cardinality(contact_links)

\* C11 as stated: the main URL is fetched first and exactly once; every later
\* fetch is of a candidate found on the main page, each at most once; there
\* are at most 1 + |candidates| fetches.
C11_MainUrlFetchedOnce ==
    Called => (OnlyCandidatesOnce /\ FetchesOf(url.val) = 1)

\* C11, amended: the main URL is fetched first; every later fetch is of a
\* candidate found on the main page, each at most once, so no fetch is
\* retried and no link found only on a contact page is fetched; there are at
\* most 1 + |candidates| fetches; the main URL is fetched a second time
\* exactly when it is itself a candidate the loop has reached.
C11_FetchSequence ==
    Called =>
        /\ OnlyCandidatesOnce
        /\ FetchesOf(url.val) = (IF url.val \in Range(Visited) THEN 2 ELSE 1)
        /\ url.val \in Range(Visited) => url.val \in contact_links

\* C11's case: the call returned after two candidates, one whose fetch failed
\* and one that was read and links to a contact page the main page does not.
C11_Witness ==
    /\ pc = "resolved"
    /\ Len(Visited) = 2
    /\ \E k \in 1..2 : ~ResultOf(Visited[k]).ok
    /\ \E k \in 1..2 : ~(LinksOn(Visited[k]) \subseteq contact_links)

\* C11's other case: the main page names itself as a contact page.
C11_WitnessSelfLink ==
    /\ pc = "resolved"
    /\ FetchesOf(url.val) = 2

\* The rows process_urls was asked to process, as positions of df.
RowsOfRange == (start_row + 1)..end_row

\* How many entries of a list are of row i.
EntriesOf(list, i) == Cardinality({k \in DOMAIN list : list[k].row = i})

\* The scrape of row i returned an outcome with a phone starting with 91 or +91.
HasIndianPhone(i) ==
    \E k \in DOMAIN outcomes :
        outcomes[k].row = i /\ IndianPhones(outcomes[k].phones) # {}

\* C12: once the loop of process_urls is over, every row of the range is in
\* exactly one of contact_details and failed_urls: in contact_details when
\* its outcome has a phone starting with 91 or +91, in failed_urls otherwise,
\* rows whose scrape ended in an error included.
C12_EveryRowRecordedOnce ==
    batch_pc = "done" =>
        \A i \in RowsOfRange :
            /\ EntriesOf(contact_details, i) + EntriesOf(failed_urls, i) = 1
            /\ EntriesOf(contact_details, i) = 1 <=> HasIndianPhone(i)

\* C12, its last part: a failure on one row does not stop the rows after it.
C12_NoRowStopsLoop == batch_pc # "aborted"
====
